---- MODULE Spec2Model ----
(***************************************************************************)
(* The bilibili videos widget of glance: configuration defaulting           *)
(* (initialize), the endpoint resolver (getBilibiliFeedURL), one fetch      *)
(* cycle (fetchBilibiliClassifyUploads, run through the worker pool), the   *)
(* refresh that stores its result (update) and Render.                      *)
(*                                                                          *)
(* The ranking revision of the widget (src/unnamed/part_000, which carries  *)
(* a view count per record and sorts by it) is the one modelled; the       *)
(* earlier revision src/internal/glance/widget-videos-bilibili.go has the   *)
(* same control flow with the ranking call commented out.                   *)
(***************************************************************************)
EXTENDS Integers, Sequences, FiniteSets, TLC

\* ------------------------------------------------------------------ bounds
\* most categories in the configured classify list
MaxCats == 2
\* most entries one feed returns
MaxEntries == 1
\* seconds the clock may advance past ClockBase
MaxClock == 2

\* ------------------------------------------------------- program constants
DefaultLimit == 25
DefaultCollapseAfterRows == 4
DefaultCollapseAfter == 7
\* time.Date(2019, time.March, 22, 0, 0, 0, 0, time.UTC) as Unix seconds
WeeklyStart == 1553212800
HoursPerDay == 24
DaysPerPeriod == 7
SecondsPerHour == 60 * 60
SecondsPerDay == HoursPerDay * SecondsPerHour

\* one second before the 313th weekly period begins
ClockBase == WeeklyStart + 313 * DaysPerPeriod * SecondsPerDay - 1

\* ------------------------------------------------------------ input sets
\* view counts a feed entry may carry (v.Stats.View)
ViewCounts == {5, 100}
\* category keywords of the refresh specification
CycleCategories == {"all", "weekly"}
\* category keywords of the resolver specification
AllCategories == {"all", "weekly", "history", "rank", ""}
\* raw values of the limit key, in the refresh and in the defaulting specification
LimitInputs == {-1, 0, 1}
ConfigLimitInputs == {-7, -1, 0, 1, 30}
\* raw values of the two collapse keys
CollapseInputs == {-2, -1, 0, 1, 3}
\* values of the style key
StyleInputs == {"", "grid-cards", "vertical-list"}

NoNumber == 0 - 1

VARIABLES
    pc,                 \* position of the widget: "uninit", "ready", or a step of update
    Videos,             \* widget.Videos
    Style,              \* widget.Style
    CollapseAfter,      \* widget.CollapseAfter
    CollapseAfterRows,  \* widget.CollapseAfterRows
    Classify,           \* widget.Classify
    Limit,              \* widget.Limit
    IncludeShorts,      \* widget.IncludeShorts
    widgetError,        \* widgetBase.Error
    widgetNotice,       \* widgetBase.Notice
    clock,              \* the wall clock, Unix seconds
    requests,           \* fetch's requests, one target per category
    pending,            \* tasks of the job the pool has not completed
    responses,          \* the pool's results, by task index
    errs,               \* the pool's errors, by task index
    videos,             \* update's local videos (fetch's first return value)
    err,                \* update's local err (fetch's second return value)
    log,                \* slog.Error records of the current cycle
    html,               \* what the last step rendered, if it was Render
    ctxDone             \* whether the context handed to update has been cancelled

vars == <<pc, Videos, Style, CollapseAfter, CollapseAfterRows, Classify, Limit,
          IncludeShorts, widgetError, widgetNotice, clock, requests, pending,
          responses, errs, videos, err, log, html, ctxDone>>

config == <<Style, CollapseAfter, CollapseAfterRows, Classify, Limit, IncludeShorts>>
locals == <<requests, pending, responses, errs, videos, err, log>>

\* ------------------------------------------------------------- helpers
RECURSIVE SeqsUpTo(_, _)
SeqsUpTo(S, n) ==
    IF n = 0 THEN {<<>>}
    ELSE LET shorter == SeqsUpTo(S, n - 1)
         IN  shorter \cup {Append(s, x) : s \in {t \in shorter : Len(t) = n - 1}, x \in S}

Take(s, n) == SubSeq(s, 1, n)

\* Go's integer division truncates toward zero
GoDiv(a, b) == IF a >= 0 THEN a \div b ELSE -((-a) \div b)

\* --------------------------------------------------------- initialize
\* a slip: only a negative limit replaced by the default
initLimitZeroKept(limit) == IF limit < 0 THEN DefaultLimit ELSE limit

initLimit(limit) == IF limit <= 0 THEN DefaultLimit ELSE limit

initCollapseAfterRows(rows) ==
    IF rows = 0 \/ rows < -1 THEN DefaultCollapseAfterRows ELSE rows

\* a slip: -1 taken for a missing value
initCollapseAfterNoNever(after) ==
    IF after <= 0 THEN DefaultCollapseAfter ELSE after

initCollapseAfter(after) ==
    IF after = 0 \/ after < -1 THEN DefaultCollapseAfter ELSE after

\* --------------------------------------------------- endpoint resolver
\* A request target: the format string of the endpoint and the values
\* fmt.Sprintf puts into it (number only for "weekly").
Target(template, number, wts) ==
    [template |-> template, number |-> number, wts |-> wts]

\* a slip: the duration not converted to periods
weeklyPeriodInSeconds(now) == now - WeeklyStart

\* days := int(duration.Hours() / 24); period := days/7, with
\* duration = now - start at the clock's resolution of one second
weeklyPeriod(now) ==
    GoDiv(GoDiv(now - WeeklyStart, SecondsPerDay), DaysPerPeriod)

\* a slip: the "history" case returning the format string of "all"
getBilibiliFeedURLHistoryAsAll(classify, wts, now) ==
    CASE classify \in {"all", "history"} ->
            Target("https://api.bilibili.com/x/web-interface/popular?ps=20&pn=1&wts=%d",
                   NoNumber, wts)
      [] classify = "weekly" ->
            Target("https://api.bilibili.com/x/web-interface/popular/series/one?number=%d&wts=%d",
                   weeklyPeriod(now), wts)
      [] OTHER ->
            Target("https://api.bilibili.com/x/web-interface/ranking/v2?rid=0&type=all&wts=%d",
                   NoNumber, wts)

\* wts is the first reading of the clock (time.Now().Unix()), now the second
\* (time.Now().UTC()), which only the "weekly" branch takes.
getBilibiliFeedURL(classify, wts, now) ==
    CASE classify = "all" ->
            Target("https://api.bilibili.com/x/web-interface/popular?ps=20&pn=1&wts=%d",
                   NoNumber, wts)
      [] classify = "weekly" ->
            Target("https://api.bilibili.com/x/web-interface/popular/series/one?number=%d&wts=%d",
                   weeklyPeriod(now), wts)
      [] classify = "history" ->
            Target("https://api.bilibili.com/x/web-interface/popular/precious?page_size=100&page=1&wts=%d",
                   NoNumber, wts)
      [] OTHER ->
            Target("https://api.bilibili.com/x/web-interface/ranking/v2?rid=0&type=all&wts=%d",
                   NoNumber, wts)

\* a slip: the requests put in front of the list instead of behind it
buildRequestsReversed(classify, wts, now) ==
    [i \in 1..Len(classify) |->
        getBilibiliFeedURL(classify[Len(classify) + 1 - i], wts, now)]

\* the request loop of fetch: requests[i] is the target of classify[i]
buildRequests(classify, wts, now) ==
    [i \in 1..Len(classify) |-> getBilibiliFeedURL(classify[i], wts, now)]

\* ------------------------------------------------------------ the fetch
\* one entry of response.Data.List, and the record the merge makes of it
Entry(view) == [View |-> view]
videoBilibili(entry) == [Views |-> entry.View]

FeedLists == SeqsUpTo({Entry(v) : v \in ViewCounts}, MaxEntries)

\* the error of a failed task names the request that failed; NoError is the
\* nil error of a task that succeeded
TaskError(request) == [msg |-> "request failed", target |-> request]
NoError == [msg |-> "nil", target |-> Target("", NoNumber, 0)]

\* the errors fetch returns; Nil is the nil error
Nil == [is |-> "nil", failed |-> 0]
errNoContent == [is |-> "errNoContent", failed |-> 0]
errPartialContent(failed) == [is |-> "errPartialContent", failed |-> failed]

\* the inner loop: one record per entry of a response, in order
convertList(list) == [j \in 1..Len(list) |-> videoBilibili(list[j])]

\* the outer loop up to index n: a failed index is skipped, the others append
RECURSIVE mergeUpTo(_, _, _)
mergeUpTo(resps, es, n) ==
    IF n = 0 THEN <<>>
    ELSE IF es[n] # NoError THEN mergeUpTo(resps, es, n - 1)
         ELSE mergeUpTo(resps, es, n - 1) \o convertList(resps[n])

\* a slip: the outer loop left at the first failed index
RECURSIVE mergeUntilFailure(_, _, _)
mergeUntilFailure(resps, es, i) ==
    IF i > Len(resps) \/ es[i] # NoError THEN <<>>
    ELSE convertList(resps[i]) \o mergeUntilFailure(resps, es, i + 1)

mergeResponsesStopAtFailure(resps, es) == mergeUntilFailure(resps, es, 1)

mergeResponses(resps, es) == mergeUpTo(resps, es, Len(resps))

\* a slip: a feed without entries counted as a failure
countFailedOrEmpty(resps, es) ==
    Cardinality({i \in 1..Len(resps) : es[i] # NoError \/ resps[i] = <<>>})

\* for i := range responses { if errs[i] != nil { failed++ ...
countFailed(resps, es) == Cardinality({i \in 1..Len(resps) : es[i] # NoError})

\* the slog.Error records of the outer loop, in index order
RECURSIVE logUpTo(_, _, _)
logUpTo(classify, es, n) ==
    IF n = 0 THEN <<>>
    ELSE IF es[n] # NoError
         THEN Append(logUpTo(classify, es, n - 1),
                     [classify |-> classify[n], error |-> es[n]])
         ELSE logUpTo(classify, es, n - 1)

failureLog(classify, es) == logUpTo(classify, es, Len(es))

\* a slip: a record with the view count of one already ranked is dropped
RECURSIVE insertByViewDropTies(_, _)
insertByViewDropTies(sorted, r) ==
    IF sorted = <<>> THEN <<r>>
    ELSE IF r.Views > Head(sorted).Views THEN <<r>> \o sorted
         ELSE IF r.Views = Head(sorted).Views THEN sorted
              ELSE <<Head(sorted)>> \o insertByViewDropTies(Tail(sorted), r)

\* sort.Slice with less(i, j) = v[i].Views > v[j].Views: insertion of each
\* record before the first one with a smaller view count
RECURSIVE insertByView(_, _)
insertByView(sorted, r) ==
    IF sorted = <<>> THEN <<r>>
    ELSE IF r.Views > Head(sorted).Views THEN <<r>> \o sorted
         ELSE <<Head(sorted)>> \o insertByView(Tail(sorted), r)

\* a slip: the ranking call left out
sortByViewDisabled(v) == v

RECURSIVE sortByView(_)
sortByView(v) ==
    IF v = <<>> THEN <<>>
    ELSE \* the ranked prefix is a bound value, computed once
         CHOOSE out \in {insertByView(ranked, v[Len(v)]) :
                            ranked \in {sortByView(SubSeq(v, 1, Len(v) - 1))}} : TRUE

\* a slip: the failure count tested before the empty list
fetchResultPartialFirst(merged, failed) ==
    IF failed > 0
    THEN [videos |-> sortByView(merged), err |-> errPartialContent(failed)]
    ELSE IF Len(merged) = 0 THEN [videos |-> <<>>, err |-> errNoContent]
         ELSE [videos |-> sortByView(merged), err |-> Nil]

\* a slip: missing categories not reported
fetchResultNoPartial(merged, failed) ==
    IF Len(merged) = 0 THEN [videos |-> <<>>, err |-> errNoContent]
    ELSE [videos |-> sortByView(merged), err |-> Nil]

\* what fetch returns once the merge is done
fetchResult(merged, failed) ==
    IF Len(merged) = 0 THEN [videos |-> <<>>, err |-> errNoContent]
    ELSE IF failed > 0
         THEN [videos |-> sortByView(merged), err |-> errPartialContent(failed)]
         ELSE [videos |-> sortByView(merged), err |-> Nil]

\* ----------------------------------------------------------- the refresh
\* widgetBase.canContinueUpdateAfterHandlingErr: only partial content lets the
\* update go on after an error; the error is kept as Error or as Notice
canContinueUpdateAfterHandlingErr(e) ==
    IF e = Nil THEN [continue |-> TRUE, Error |-> Nil, Notice |-> Nil]
    ELSE IF e.is = "errPartialContent"
         THEN [continue |-> TRUE, Error |-> Nil, Notice |-> e]
         ELSE [continue |-> FALSE, Error |-> e, Notice |-> Nil]

\* a slip: the list stored as fetched
truncateOff(v, limit) == v

\* a slip: the end of the list kept instead of its start
truncateTail(v, limit) ==
    IF Len(v) > limit THEN SubSeq(v, Len(v) - limit + 1, Len(v)) ELSE v

\* if len(videos) > widget.Limit { videos = videos[:widget.Limit] }
truncate(v, limit) == IF Len(v) > limit THEN Take(v, limit) ELSE v

\* -------------------------------------------------------------- Render
selectTemplate(style) ==
    IF style = "grid-cards" THEN "videosBilibiliWidgetGridTemplate"
    ELSE "videosBilibiliWidgetTemplate"

NoHtml == [template |-> "none", Videos |-> <<>>]
Unset == [is |-> "unset", failed |-> 0]

\* --------------------------------------------------------------- states
Init ==
    /\ pc = "uninit"
    /\ Videos = <<>>
    /\ Style = ""
    /\ CollapseAfter = 0
    /\ CollapseAfterRows = 0
    /\ Classify \in SeqsUpTo(CycleCategories, MaxCats)
    /\ Limit \in LimitInputs
    /\ IncludeShorts = FALSE
    /\ widgetError = Nil
    /\ widgetNotice = Nil
    /\ clock = ClockBase
    /\ requests = <<>>
    /\ pending = {}
    /\ responses = <<>>
    /\ errs = <<>>
    /\ videos = <<>>
    /\ err = Unset
    /\ log = <<>>
    /\ html = NoHtml
    /\ ctxDone = FALSE

\* videosBilibiliWidget.initialize
initialize ==
    /\ pc = "uninit"
    /\ pc' = "ready"
    /\ Limit' = initLimit(Limit)
    /\ CollapseAfterRows' = initCollapseAfterRows(CollapseAfterRows)
    /\ CollapseAfter' = initCollapseAfter(CollapseAfter)
    /\ html' = NoHtml
    /\ UNCHANGED <<ctxDone, Videos, Style, Classify, IncludeShorts, widgetError, widgetNotice,
                   clock, locals>>

\* update calls fetch: the request loop, then the job goes to the pool
UpdateStart ==
    /\ pc = "ready"
    /\ \E t \in clock .. (ClockBase + MaxClock) :
        /\ clock' = t
        /\ requests' = buildRequests(Classify, t, t)
    /\ pending' = 1..Len(Classify)
    /\ responses' = [i \in 1..Len(Classify) |-> <<>>]
    /\ errs' = [i \in 1..Len(Classify) |-> NoError]
    /\ videos' = <<>>
    /\ err' = Unset
    /\ log' = <<>>
    /\ pc' = "pool"
    /\ html' = NoHtml
    /\ UNCHANGED <<ctxDone, Videos, config, widgetError, widgetNotice>>

\* a worker completes task i: its result or its error goes to slot i
WorkerComplete(i) ==
    /\ pc = "pool"
    /\ i \in pending
    /\ pending' = pending \ {i}
    /\ \/ /\ errs' = [errs EXCEPT ![i] = TaskError(requests[i])]
          /\ UNCHANGED responses
       \/ /\ \E list \in FeedLists : responses' = [responses EXCEPT ![i] = list]
          /\ UNCHANGED errs
    /\ html' = NoHtml
    /\ UNCHANGED <<ctxDone, pc, Videos, config, widgetError, widgetNotice, clock, requests,
                   videos, err, log>>

\* workerPoolDo has returned: fetch merges, ranks and returns to update
Aggregate ==
    /\ pc = "pool"
    /\ pending = {}
    /\ LET result == fetchResult(mergeResponses(responses, errs), countFailed(responses, errs))
       IN  /\ videos' = result.videos
           /\ err' = result.err
    /\ log' = failureLog(Classify, errs)
    /\ pc' = "fetched"
    /\ html' = NoHtml
    /\ UNCHANGED <<ctxDone, Videos, config, widgetError, widgetNotice, clock, requests,
                   pending, responses, errs>>

\* a slip: no return after an error that does not allow the update to go on
UpdateStoreNoReturn ==
    /\ pc = "fetched"
    /\ LET handled == canContinueUpdateAfterHandlingErr(err)
       IN  /\ widgetError' = handled.Error
           /\ widgetNotice' = handled.Notice
           /\ Videos' = truncate(videos, Limit)
    /\ pc' = "ready"
    /\ html' = NoHtml
    /\ UNCHANGED <<ctxDone, config, clock, locals>>

\* a slip: the fetched list stored first and cut to the limit in a second write
UpdateStoreTwoWrites ==
    /\ pc = "fetched"
    /\ LET handled == canContinueUpdateAfterHandlingErr(err)
       IN  /\ widgetError' = handled.Error
           /\ widgetNotice' = handled.Notice
           /\ IF handled.continue /\ Len(videos) > Limit /\ Videos # videos
              THEN Videos' = videos /\ pc' = "fetched"
              ELSE /\ Videos' = IF handled.continue THEN truncate(videos, Limit) ELSE Videos
                   /\ pc' = "ready"
    /\ html' = NoHtml
    /\ UNCHANGED <<ctxDone, config, clock, locals>>

\* a slip: a cycle without content taken for fatal
UpdateStoreFailsHard ==
    /\ pc = "fetched"
    /\ LET handled == canContinueUpdateAfterHandlingErr(err)
       IN  /\ widgetError' = handled.Error
           /\ widgetNotice' = handled.Notice
           /\ Videos' = IF handled.continue THEN truncate(videos, Limit) ELSE Videos
           /\ pc' = IF handled.continue THEN "ready" ELSE "failed"
    /\ html' = NoHtml
    /\ UNCHANGED <<ctxDone, config, clock, locals>>

\* a slip: the limit lowered to the number of records stored
UpdateStoreShrinksLimit ==
    /\ pc = "fetched"
    /\ LET handled == canContinueUpdateAfterHandlingErr(err)
       IN  /\ widgetError' = handled.Error
           /\ widgetNotice' = handled.Notice
           /\ Videos' = IF handled.continue THEN truncate(videos, Limit) ELSE Videos
           /\ Limit' = IF handled.continue /\ 0 < Len(videos) /\ Len(videos) < Limit
                       THEN Len(videos) ELSE Limit
    /\ pc' = "ready"
    /\ html' = NoHtml
    /\ UNCHANGED <<ctxDone, Style, CollapseAfter, CollapseAfterRows, Classify, IncludeShorts,
                   clock, locals>>

\* the rest of update: handle the error, truncate, store
UpdateStore ==
    /\ pc = "fetched"
    /\ LET handled == canContinueUpdateAfterHandlingErr(err)
       IN  /\ widgetError' = handled.Error
           /\ widgetNotice' = handled.Notice
           /\ Videos' = IF handled.continue THEN truncate(videos, Limit) ELSE Videos
    /\ pc' = "ready"
    /\ html' = NoHtml
    /\ UNCHANGED <<ctxDone, config, clock, locals>>

\* a slip: an unknown style replaced by the default one while rendering
RenderNormalisingStyle ==
    /\ pc # "uninit"
    /\ html' = [template |-> selectTemplate(Style), Videos |-> Videos]
    /\ Style' = IF Style = "grid-cards" THEN Style ELSE ""
    /\ UNCHANGED <<ctxDone, pc, Videos, CollapseAfter, CollapseAfterRows, Classify, Limit,
                   IncludeShorts, widgetError, widgetNotice, clock, locals>>

\* videosBilibiliWidget.Render, at any moment after initialize
Render ==
    /\ pc # "uninit"
    /\ html' = [template |-> selectTemplate(Style), Videos |-> Videos]
    /\ UNCHANGED <<ctxDone, pc, Videos, config, widgetError, widgetNotice, clock, locals>>

Next ==
    \/ initialize
    \/ UpdateStart
    \/ \E i \in 1..MaxCats : WorkerComplete(i)
    \/ Aggregate
    \/ UpdateStore
    \/ Render

Spec == Init /\ [][Next]_vars

\* ------------------------------------------- the defaulting specification
\* every raw configuration; initialize, then Render
InitConfig ==
    /\ pc = "uninit"
    /\ Videos = <<>>
    /\ Style \in StyleInputs
    /\ CollapseAfter \in CollapseInputs
    /\ CollapseAfterRows \in CollapseInputs
    /\ Classify = <<"all">>
    /\ Limit \in ConfigLimitInputs
    /\ IncludeShorts \in BOOLEAN
    /\ widgetError = Nil
    /\ widgetNotice = Nil
    /\ clock = ClockBase
    /\ requests = <<>>
    /\ pending = {}
    /\ responses = <<>>
    /\ errs = <<>>
    /\ videos = <<>>
    /\ err = Unset
    /\ log = <<>>
    /\ html = NoHtml
    /\ ctxDone = FALSE

NextConfig ==
    \/ initialize
    \/ Render

SpecConfig == InitConfig /\ [][NextConfig]_vars

\* --------------------------------------------- the resolver specification
\* the request loop of fetch taken one call of getBilibiliFeedURL at a time,
\* over every category list, with the clock running between its readings
InitResolver ==
    /\ pc = "resolving"
    /\ Videos = <<>>
    /\ Style = ""
    /\ CollapseAfter = DefaultCollapseAfter
    /\ CollapseAfterRows = DefaultCollapseAfterRows
    /\ Classify \in SeqsUpTo(AllCategories, MaxCats)
    /\ Limit = DefaultLimit
    /\ IncludeShorts = FALSE
    /\ widgetError = Nil
    /\ widgetNotice = Nil
    /\ clock = ClockBase
    /\ requests = <<>>
    /\ pending = {}
    /\ responses = <<>>
    /\ errs = <<>>
    /\ videos = <<>>
    /\ err = Unset
    /\ log = <<>>
    /\ html = NoHtml
    /\ ctxDone = FALSE

\* one iteration of the request loop: getBilibiliFeedURL reads the clock for
\* wts and again for now, and the request is appended
ResolveRequest ==
    /\ pc = "resolving"
    /\ Len(requests) < Len(Classify)
    /\ \E wts \in clock .. (ClockBase + MaxClock) :
        \E now \in wts .. (ClockBase + MaxClock) :
            /\ requests' = Append(requests,
                                  getBilibiliFeedURL(Classify[Len(requests) + 1], wts, now))
            /\ clock' = now
    /\ UNCHANGED <<ctxDone, pc, Videos, config, widgetError, widgetNotice, pending, responses,
                   errs, videos, err, log, html>>

NextResolver == ResolveRequest

SpecResolver == InitResolver /\ [][NextResolver]_vars

\* ------------------------------------------------ the widget specification
\* the refresh specification over every style and flag, for one category and
\* for two
WidgetClassifyInputs == {<<"all">>, <<"all", "weekly">>}

InitWidget ==
    /\ pc = "uninit"
    /\ Videos = <<>>
    /\ Style \in StyleInputs
    /\ CollapseAfter \in {-1, 0}
    /\ CollapseAfterRows = 0
    /\ Classify \in WidgetClassifyInputs
    /\ Limit \in LimitInputs
    /\ IncludeShorts \in BOOLEAN
    /\ widgetError = Nil
    /\ widgetNotice = Nil
    /\ clock = ClockBase
    /\ requests = <<>>
    /\ pending = {}
    /\ responses = <<>>
    /\ errs = <<>>
    /\ videos = <<>>
    /\ err = Unset
    /\ log = <<>>
    /\ html = NoHtml
    /\ ctxDone = FALSE

SpecWidget == InitWidget /\ [][Next]_vars

\* the same under one style and one setting of the flag, and with update
\* running on: once the pool has returned, fetch merges and returns, and
\* update handles the result and returns
InitWidgetFair ==
    /\ InitWidget
    /\ Style = ""
    /\ CollapseAfter = 0
    /\ ~IncludeShorts

SpecWidgetFair ==
    /\ InitWidgetFair
    /\ [][Next]_vars
    /\ WF_vars(Aggregate)
    /\ WF_vars(UpdateStore)

\* ----------------------------------------- the cancellation specification
\* the refresh specification with the context of update cancelled at any
\* moment after initialize; update takes ctx and never reads it
Cancel ==
    /\ pc # "uninit"
    /\ ~ctxDone
    /\ ctxDone' = TRUE
    /\ html' = NoHtml
    /\ UNCHANGED <<pc, Videos, config, widgetError, widgetNotice, clock, locals>>

NextCancel ==
    \/ Next
    \/ Cancel

SpecCancel == Init /\ [][NextCancel]_vars

\* ================================================================ claims
IsSortedByView(list) ==
    \A a, b \in 1..Len(list) : a < b => list[a].Views >= list[b].Views

\* fetch has returned in the current (or last) cycle
Fetched == err # Unset
Tasks == 1..Len(errs)
FailedTasks == {i \in Tasks : errs[i] # NoError}
SucceededTasks == Tasks \ FailedTasks
Min(a, b) == IF a < b THEN a ELSE b

\* every record of the list is an entry of a feed whose fetch succeeded
FromSucceeded(list) ==
    \A j \in 1..Len(list) :
        \E i \in SucceededTasks : \E m \in 1..Len(responses[i]) :
            list[j].Views = responses[i][m].View

\* C1: when the category list is not empty, every fetch succeeds and some feed
\* has an entry, fetch returns no error and a list in non-increasing order of
\* view count, and the list the refresh then stores is a prefix of it of at
\* most Limit records.
C1_CompleteSortedWithinLimit ==
    (/\ Fetched
     /\ Len(Classify) > 0
     /\ FailedTasks = {}
     /\ \E i \in Tasks : responses[i] # <<>>)
    => /\ err = Nil
       /\ IsSortedByView(videos)
       /\ pc = "ready" => /\ Len(Videos) <= Limit
                          /\ Videos = Take(videos, Len(Videos))
                          /\ IsSortedByView(Videos)

\* two feeds in rising order of views are merged, ranked and cut to the limit
C1_Witness ==
    /\ pc = "ready" /\ Fetched /\ FailedTasks = {}
    /\ Len(Classify) = 2
    /\ responses[1] # <<>> /\ responses[2] # <<>>
    /\ responses[1][1].View < responses[2][1].View
    /\ Limit = 1 /\ Len(Videos) = 1 /\ Len(videos) = 2
    /\ Videos[1].Views = responses[2][1].View

\* C2: when k of the N fetches fail, 1 <= k < N, and every other feed has an
\* entry, fetch returns the partial-content error with the count k, and every
\* record returned and stored is an entry of a feed whose fetch succeeded.
C2_PartialCounted ==
    (/\ Fetched
     /\ Cardinality(FailedTasks) >= 1
     /\ Cardinality(FailedTasks) < Len(Classify)
     /\ \A i \in SucceededTasks : responses[i] # <<>>)
    => /\ err = [is |-> "errPartialContent", failed |-> Cardinality(FailedTasks)]
       /\ videos # <<>>
       /\ FromSucceeded(videos)
       /\ pc = "ready" => (Videos # <<>> /\ FromSucceeded(Videos))

C2_Witness ==
    /\ pc = "ready" /\ Fetched
    /\ Len(Classify) = 2 /\ FailedTasks = {1}
    /\ responses[2] # <<>>
    /\ err.failed = 1 /\ widgetNotice = err
    /\ Videos = videos /\ Videos # <<>>

\* the cases of C3: no feed at all, every fetch failed, or every fetch
\* succeeded without an entry
AllFailedOrAllEmpty ==
    \/ \A i \in Tasks : errs[i] # NoError
    \/ \A i \in Tasks : errs[i] = NoError /\ responses[i] = <<>>

\* C3: when every fetch fails, or every fetch succeeds without an entry, fetch
\* returns the no-content error, and no step of the refresh changes the stored
\* list: not while the pool runs, and not when update handles the error.
C3_EmptyKeepsStored ==
    [][/\ pc = "pool" => Videos' = Videos
       /\ (pc = "fetched" /\ AllFailedOrAllEmpty)
            => (err = errNoContent /\ Videos' = Videos)]_vars

\* a stored list has survived a cycle in which every fetch failed
C3_Witness ==
    /\ pc = "ready" /\ Fetched
    /\ Len(Classify) > 0
    /\ \A i \in Tasks : errs[i] # NoError
    /\ err = errNoContent /\ widgetError = errNoContent
    /\ Videos # <<>>

\* C4: when no succeeded feed has an entry, fetch returns the no-content error
\* and no list, whatever the number of failed fetches.
C4_EmptyBeforePartial ==
    (Fetched /\ \A i \in Tasks : errs[i] # NoError \/ responses[i] = <<>>)
    => (err = errNoContent /\ videos = <<>>)

\* one fetch failed, the other succeeded without an entry
C4_Witness ==
    /\ pc = "fetched"
    /\ FailedTasks # {} /\ SucceededTasks # {}
    /\ \A i \in SucceededTasks : responses[i] = <<>>
    /\ err = errNoContent

\* C5: the failure count fetch reports is the number of indices whose error is
\* set, one diagnostic is logged per such index, and a cycle without an error
\* that merged a record is complete even if some feed had no entry.
C5_EmptyFeedIsNoFailure ==
    Fetched =>
        /\ Len(log) = Cardinality(FailedTasks)
        /\ err.is = "errPartialContent" => err.failed = Cardinality(FailedTasks)
        /\ (FailedTasks = {} /\ \E i \in Tasks : responses[i] # <<>>) => err = Nil

\* no fetch failed, one feed had no entry, the other had one
C5_Witness ==
    /\ pc = "fetched" /\ FailedTasks = {}
    /\ \E i \in Tasks : responses[i] = <<>>
    /\ \E i \in Tasks : responses[i] # <<>>
    /\ err = Nil /\ log = <<>>

\* C6: the stored list is empty at first; the step that ends a complete or
\* partial cycle stores the first Limit records of the ranked list of that
\* cycle (all of it when it is shorter), the step that ends an empty cycle
\* keeps the stored list, and no other step changes it.
C6_StoredIsLastGood ==
    /\ Videos = <<>>
    /\ [][IF pc = "fetched" /\ pc' = "ready"
          THEN IF err = Nil \/ err.is = "errPartialContent"
               THEN /\ Videos' = Take(videos, Min(Len(videos), Limit))
                    /\ IsSortedByView(Videos')
               ELSE Videos' = Videos
          ELSE Videos' = Videos]_vars

\* a partial cycle is about to replace a longer stored list by a shorter one
C6_Witness ==
    /\ pc = "fetched"
    /\ err.is = "errPartialContent"
    /\ Len(videos) < Len(Videos)

KthFailed(k) == CHOOSE i \in FailedTasks : Cardinality({j \in FailedTasks : j <= i}) = k

\* C8: the k-th diagnostic carries the category submitted at the index of the
\* k-th failed task, and the error it carries is the error of the request
\* that was resolved from that category.
C8_DiagnosticNamesCategory ==
    Fetched =>
        /\ Len(log) = Cardinality(FailedTasks)
        /\ \A k \in 1..Len(log) :
            /\ log[k].classify = Classify[KthFailed(k)]
            /\ log[k].error.target.template
                 = getBilibiliFeedURL(log[k].classify, 0, 0).template

\* the second of two different categories failed
C8_Witness ==
    /\ pc = "fetched"
    /\ Classify = <<"all", "weekly">>
    /\ FailedTasks = {2}
    /\ Len(log) = 1 /\ log[1].classify = "weekly"

\* C9: initialize replaces a limit of 0 or less by 25 and keeps a positive
\* one; it replaces a collapse threshold that is 0 or below -1 by its default
\* (7 for collapse-after, 4 for collapse-after-rows) and keeps -1 and every
\* positive threshold; each of the three is decided by its own value alone.
C9_Defaulting ==
    [][pc = "uninit" =>
        /\ Limit' = IF Limit <= 0 THEN 25 ELSE Limit
        /\ CollapseAfter' = IF CollapseAfter = -1 \/ CollapseAfter > 0
                            THEN CollapseAfter ELSE 7
        /\ CollapseAfterRows' = IF CollapseAfterRows = -1 \/ CollapseAfterRows > 0
                                THEN CollapseAfterRows ELSE 4]_vars

\* collapse-after kept at -1 while collapse-after-rows and the limit took
\* their defaults
C9_Witness ==
    /\ pc = "ready"
    /\ CollapseAfter = -1
    /\ CollapseAfterRows = 4
    /\ Limit = 25

\* whole 7-day periods between the reference date and the instant t
PeriodAt(t) == (t - 1553212800) \div (7 * 24 * 3600)

KnownCategories == {"all", "weekly", "history"}

\* C11: targets of two different known categories ("all", "weekly",
\* "history") have different templates; the target of every other category,
\* the empty string included, has the template of the ranking endpoint; and
\* resolving sets no error and logs no failed category.
C11_KnownDistinctOtherRanking ==
    /\ \A i, j \in 1..Len(requests) :
          (/\ Classify[i] \in KnownCategories
           /\ Classify[j] \in KnownCategories
           /\ Classify[i] # Classify[j])
          => requests[i].template # requests[j].template
    /\ \A i \in 1..Len(requests) :
          Classify[i] \notin KnownCategories
          => /\ requests[i].template
                  = "https://api.bilibili.com/x/web-interface/ranking/v2?rid=0&type=all&wts=%d"
             /\ requests[i].number = NoNumber
    /\ errs = <<>> /\ log = <<>> /\ err = Unset

\* "history" and the empty category resolved one after the other
C11_Witness ==
    /\ Classify = <<"history", "">>
    /\ Len(requests) = 2
    /\ requests[1].template # requests[2].template
    /\ requests[2].template
         = "https://api.bilibili.com/x/web-interface/ranking/v2?rid=0&type=all&wts=%d"

\* C12: once the context is cancelled during a cycle, every request still in
\* flight ends with an error; and a cancellation between two cycles changes
\* nothing but the context.
C12_CancelPropagates ==
    [][/\ (ctxDone /\ pc = "pool")
            => \A i \in pending \ pending' : errs'[i] # NoError
       /\ (~ctxDone /\ ctxDone' /\ pc = "ready")
            => UNCHANGED <<pc, Videos, config, widgetError, widgetNotice, clock, locals>>]_vars

\* C13: the widget is never anywhere but before initialize, ready, or in a
\* step of a refresh; once the pool has returned all its tasks the refresh
\* comes back to ready, whatever its outcome; and in ready a refresh can start.
C13_RefreshReturnsToReady ==
    /\ [](pc \in {"uninit", "ready", "pool", "fetched"})
    /\ [](pc = "ready" => ENABLED UpdateStart)
    /\ (pc = "pool" /\ pending = {}) ~> (pc = "ready")

\* back in ready after a cycle without content, the error kept on the widget
C13_Witness ==
    /\ pc = "ready"
    /\ err = errNoContent
    /\ widgetError = errNoContent
    /\ Len(Classify) = 2

\* C14: a Render picks the grid template for the style "grid-cards" and the
\* default template for every other style, and changes neither the stored
\* list nor the configuration.
C14_RenderChangesNoData ==
    [][html' # NoHtml =>
        /\ html'.template = IF Style = "grid-cards"
                            THEN "videosBilibiliWidgetGridTemplate"
                            ELSE "videosBilibiliWidgetTemplate"
        /\ Videos' = Videos
        /\ <<Style, CollapseAfter, CollapseAfterRows, Classify, Limit, IncludeShorts>>'
             = <<Style, CollapseAfter, CollapseAfterRows, Classify, Limit, IncludeShorts>>]_vars

\* a stored list rendered under a style Render does not know
C14_Witness ==
    /\ html # NoHtml
    /\ Style = "vertical-list"
    /\ html.template = "videosBilibiliWidgetTemplate"
    /\ Videos # <<>> /\ html.Videos = Videos

\* C18: after initialize no step changes the category list, the limit, a
\* collapse threshold, the style or the content-filter flag.
C18_ConfigNeverMutated ==
    [][pc # "uninit" =>
        /\ Classify' = Classify
        /\ Limit' = Limit
        /\ CollapseAfter' = CollapseAfter
        /\ CollapseAfterRows' = CollapseAfterRows
        /\ Style' = Style
        /\ IncludeShorts' = IncludeShorts]_vars

\* a partial cycle has replaced the stored list and left the configuration
C18_Witness ==
    /\ pc = "ready"
    /\ err.is = "errPartialContent" /\ widgetNotice = err
    /\ Videos # <<>> /\ Len(Videos) < Limit
    /\ Limit = 25 /\ CollapseAfter = -1 /\ CollapseAfterRows = 4
    /\ Style = "grid-cards" /\ IncludeShorts

\* the number of records of the list with view count v, and the number of
\* entries with view count v in the feeds whose fetch succeeded
Count(list, v) == Cardinality({j \in 1..Len(list) : list[j].Views = v})
EntriesWith(v) ==
    UNION {{<<i, m>> : m \in {n \in 1..Len(responses[i]) : responses[i][n].View = v}} :
           i \in SucceededTasks}
EntryCount(v) == Cardinality(EntriesWith(v))
TotalEntries == Cardinality(UNION {EntriesWith(v) : v \in ViewCounts})

\* C15: nothing is merged while a task is pending, and once fetch has
\* returned, every entry of every feed whose fetch succeeded is in the list
\* returned, wherever the failed categories are.
C15_MergeAfterAllOutcomes ==
    /\ pending # {} => (~Fetched /\ videos = <<>> /\ log = <<>>)
    /\ Fetched =>
          \A i \in SucceededTasks : \A m \in 1..Len(responses[i]) :
              \E k \in 1..Len(videos) : videos[k].Views = responses[i][m].View

\* the first category failed, the second one's entry is returned
C15_Witness ==
    /\ pc = "fetched"
    /\ FailedTasks = {1}
    /\ Len(responses) = 2 /\ responses[2] # <<>>
    /\ Len(videos) = 1 /\ videos[1].Views = responses[2][1].View

\* C16: after a refresh that stored a list, the stored list has
\* min(Limit, number of merged records) records, all of them merged records,
\* and every merged record left out has a view count less than or equal to
\* that of every record kept.
C16_TruncationKeepsHighest ==
    (pc = "ready" /\ Fetched /\ err # errNoContent)
    => /\ Len(Videos) = Min(Limit, TotalEntries)
       /\ \A v \in ViewCounts : Count(Videos, v) <= EntryCount(v)
       /\ \A v, w \in ViewCounts :
             (Count(Videos, v) < EntryCount(v) /\ Count(Videos, w) > 0) => v <= w

\* two feeds in falling order of views, the lower record left out
C16_Witness ==
    /\ pc = "ready" /\ Fetched /\ FailedTasks = {}
    /\ Len(Classify) = 2
    /\ responses[1] # <<>> /\ responses[2] # <<>>
    /\ responses[1][1].View > responses[2][1].View
    /\ Limit = 1 /\ Len(Videos) = 1
    /\ Videos[1].Views = responses[1][1].View

\* C17: the period index in the target of the "weekly" category is the number
\* of whole 7-day periods between 2019-03-22 00:00:00 UTC and the instant of
\* the wts value of the same target.
C17_WeeklyPeriodOfWts ==
    \A i \in 1..Len(requests) :
        Classify[i] = "weekly" => requests[i].number = PeriodAt(requests[i].wts)

\* C19: after initialize the limit is strictly positive, the stored list has
\* at most Limit records, and the slice videos[:Limit] of update is taken only
\* of a list longer than Limit.
C19_LimitPositiveStoredWithin ==
    pc # "uninit"
    => /\ Limit > 0
       /\ Len(Videos) <= Limit
       /\ (pc = "fetched" /\ Len(videos) > Limit) => Limit \in 0..Len(videos)

\* two records of equal views fetched under the limit 1, one stored
C19_Witness ==
    /\ pc = "ready" /\ Fetched
    /\ Limit = 1
    /\ Len(videos) = 2 /\ videos[1].Views = videos[2].Views
    /\ Len(Videos) = 1

\* C20: the list fetch returns holds, for every view count, as many records
\* as the feeds whose fetch succeeded hold entries of that view count, and its
\* length is the sum of their entry counts.
C20_MergedIsPermutation ==
    Fetched
    => /\ \A v \in ViewCounts : Count(videos, v) = EntryCount(v)
       /\ Len(videos) = TotalEntries

\* two entries of the same view count, both returned
C20_Witness ==
    /\ pc = "fetched" /\ FailedTasks = {}
    /\ Len(responses) = 2
    /\ responses[1] # <<>> /\ responses[1] = responses[2]
    /\ Len(videos) = 2

====
